---- MODULE Spec2Model ----
(***************************************************************************)
(* Model of tribe-widget (app/p/[slug]/page.tsx): the shared record store  *)
(* (supabase tables hang_requests, availability_windows, plans, responses, *)
(* claims); for each browser tab that has the plan page open, the React    *)
(* state of PlanPage and the asynchronous functions (load, setRSVP,        *)
(* setArrival, claimItem, unclaimItem, ensurePotluckDefaults) that are     *)
(* suspended at an await; and the request page (RequestPage: load,         *)
(* addWindow, overlaps, createPlanFromOverlap) of one tab.                 *)
(***************************************************************************)
EXTENDS Integers, FiniteSets, Sequences, Bags, TLC

\* ------------------------------------------------------------------ bounds

\* Browser tabs that have the plan page open.
NumClients == 2
\* load() invocations one tab may have suspended at an await at one time.
MaxLoads == 2
\* Write handlers one tab may have suspended at their store call at one time.
MaxWrites == 1
\* Items of DEFAULT_POTLUCK_ITEMS the users click on (all five are seeded).
NumClickedItems == 1
\* Statuses of STATUSES and options of ARRIVAL_OPTIONS the users choose.
NumStatuses == 1

NumArrivals == 1
\* Rows a table may hold (only a faulty write path ever gets there).
MaxRows == 10
\* Windows the store holds when the request page is opened to compute overlaps.
MaxWindows == 5
\* Windows the store holds at most while windows are added through the page.
MaxAdded == 2

\* --------------------------------------------------------------- constants

NULL == "null"

\* The value of state plan before a plan is loaded (null).
NoPlan == [id |-> 0, slug |-> "", type |-> ""]

Clients == 1..NumClients

STATUSES == <<"in", "maybe", "out">>

EVENT_TYPES == <<"Potluck", "Cabin creative coworking", "Dance class", "Playdate">>

ARRIVAL_OPTIONS == <<"On time", "5-10 late", "10-20 late", "Not sure">>

DEFAULT_POTLUCK_ITEMS == <<"Main dish", "Salad / Veg", "Snack / App", "Dessert", "Drinks">>

Range(s) == {s[i] : i \in DOMAIN s}

\* plan.type.toLowerCase().includes("potluck"), over the types a request can have
isPotluck(type) == type \in {"Potluck"}

\* plan.type.toLowerCase().includes("playdate")
isPlaydate(type) == type \in {"Playdate"}

\* What the user can have typed in the name field, and String.prototype.trim on it.
NameInputs == {"", " ", "Ann ", "Bob"}

\* A trim that removes trailing blanks of a name but keeps a blank string.
trimKeepsBlank(s) == CASE s = "Ann " -> "Ann"
                       [] OTHER -> s

trim(s) == CASE s = "Ann " -> "Ann"
             [] s = " " -> ""
             [] OTHER -> s

\* The browsers (their localStorage tw_user_key), and what a browser can hold as
\* tw_user_name: nothing, or a name setUserName(name.trim()) has saved.
UserKeys == {"k1", "k2"}

SavedNames == {"", "Ann", "Bob"}

\* The statuses the RSVP buttons send, and the arrival options the user picks.
StatusInputs == {STATUSES[i] : i \in 1..NumStatuses}

ArrivalInputs == {ARRIVAL_OPTIONS[i] : i \in 1..NumArrivals}

ClickedItems == {DEFAULT_POTLUCK_ITEMS[i] : i \in 1..NumClickedItems}

\* The plan every tab's link points at, and a link that resolves to no plan.
PlanSlug == "p1"

Slugs == {PlanSlug, "gone"}

\* The request the request page's link points at.
RequestSlug == "r1"

\* What nanoid(10) can return: a slug some plan already has, or a new one.
NanoidOutputs == {PlanSlug, "p2"}

\* overlaps: the shortest overlap shown (minutes) and the length of the list.
MinOverlap == 30

MaxOverlaps == 8

\* Milliseconds per minute (overlapMinutes divides by it).
MsPerMinute == 60000

\* Date.prototype.getTime() of an invalid date.
NaN == -1

\* The values the datetime-local fields can hold, a quarter of an hour apart
\* ("" is a field left empty), and new Date(value).getTime() of each.
LocalTimes == <<"10:00", "10:15", "10:30", "10:45", "11:00", "11:15", "11:30", "11:45",
                "12:00", "12:15", "12:30">>

DateOfLocal(s) ==
  IF \E i \in DOMAIN LocalTimes : LocalTimes[i] = s
    THEN (600 + 15 * ((CHOOSE i \in DOMAIN LocalTimes : LocalTimes[i] = s) - 1)) * MsPerMinute
    ELSE NaN

\* Date.prototype.toISOString(): the instant as text, to the millisecond (here
\* its minute and the milliseconds within the minute), and new Date(text).
toISOString(t) == [minute |-> t \div MsPerMinute, ms |-> t % MsPerMinute]

DateOfISO(ts) == ts.minute * MsPerMinute + ts.ms

\* What the user puts in the start and end fields before clicking Add window.
StartInputs == {"", LocalTimes[1], LocalTimes[3]}

EndInputs == {"", LocalTimes[1], LocalTimes[5]}

\* Messages of the errors the store client returns.
NoRowsError == "no rows"

FetchError == "fetch failed"

WriteError == "write failed"

PlanWriteError == "plan write failed"

DuplicateError == "duplicate key"

NameError == "Add your name first."

DateError == "Invalid date/time."

OrderError == "End must be after start."

UnclaimError == "Only the person who claimed it can unclaim."

\* ------------------------------------------------------------------- state

VARIABLES
  supabase,   \* the record store: [hang_requests, availability_windows, plans,
              \* responses, claims], each a set of rows
  slug,       \* slug[c]: the slug of the page tab c has open (useParams)
  userKey,    \* userKey[c]: localStorage tw_user_key of tab c's browser
  plan,       \* plan[c]: PlanPage state plan (NoPlan or a plans row)
  responses,  \* responses[c]: PlanPage state responses
  claims,     \* claims[c]: PlanPage state claims
  loading,    \* loading[c]: PlanPage state loading
  err,        \* err[c]: PlanPage state err (NULL or a message)
  name,       \* name[c]: PlanPage state name (the name field)
  loads,      \* loads[c]: bag of load() invocations suspended at an await
  writes,     \* writes[c]: bag of write handlers suspended at their store call
  mounted,    \* mounted[c]: tab c still shows its PlanPage (it has not navigated away)
  requestPage \* the RequestPage of the tab that has a request open: its state
              \* (req, rows, loading, err), its calls suspended at an await
              \* (loads, writes) and the route the tab is at

vars == <<supabase, slug, userKey, plan, responses, claims, loading, err, name,
          loads, writes, mounted, requestPage>>

\* ------------------------------------------------------------------- store

\* The row of a set that a select ordered by created_at descending lists first
\* and Array.prototype.find therefore returns: the one created last.
Newest(rows) == CHOOSE r \in rows : \A q \in rows : q.id <= r.id

\* supabase.from("plans").select("*").eq("slug", s).single()
SelectPlan(db, s) ==
  LET rows == {p \in db.plans : p.slug = s}
  IN  IF Cardinality(rows) = 1
        THEN [error |-> NULL, data |-> rows]
        ELSE [error |-> NoRowsError, data |-> {}]

\* supabase.from("responses").select("*").eq("plan_id", planId)
SelectResponses(db, planId) ==
  [error |-> NULL, data |-> {r \in db.responses : r.plan_id = planId}]

\* supabase.from("claims").select("*").eq("plan_id", planId)
SelectClaims(db, planId) ==
  [error |-> NULL, data |-> {r \in db.claims : r.plan_id = planId}]

\* A select that did not reach the store: no data, which load turns into [].
FailedSelect == [error |-> FetchError, data |-> {}]

\* Upsert as a plain insert (no onConflict): the payload always becomes a new row.
UpsertAsInsert(db, payload) ==
  [db EXCEPT !.responses =
     @ \cup {[id |-> Cardinality(db.responses) + 1, plan_id |-> payload.plan_id,
              user_key |-> payload.user_key, user_name |-> payload.user_name,
              status |-> payload.status, arrival |-> payload.arrival]}]

\* An upsert whose conflict target is plan_id alone: every row of the plan takes
\* the payload's columns, user_key included.
UpsertOnPlan(db, payload) ==
  LET hit == {r \in db.responses : r.plan_id = payload.plan_id}
      new == [id |-> Cardinality(db.responses) + 1, plan_id |-> payload.plan_id,
              user_key |-> payload.user_key, user_name |-> payload.user_name,
              status |-> payload.status, arrival |-> payload.arrival]
  IN  IF hit = {}
        THEN [db EXCEPT !.responses = @ \cup {new}]
        ELSE [db EXCEPT !.responses =
                (@ \ hit) \cup {[r EXCEPT !.user_key = payload.user_key,
                                          !.user_name = payload.user_name,
                                          !.status = payload.status,
                                          !.arrival = payload.arrival] : r \in hit}]

\* supabase.from("responses").upsert(payload, {onConflict: "plan_id,user_key"}):
\* the row of the same (plan_id, user_key) takes the payload's columns and keeps
\* its id; with no such row the payload becomes a new row.
Upsert(db, payload) ==
  LET hit == {r \in db.responses : r.plan_id = payload.plan_id
                                   /\ r.user_key = payload.user_key}
      new == [id |-> Cardinality(db.responses) + 1, plan_id |-> payload.plan_id,
              user_key |-> payload.user_key, user_name |-> payload.user_name,
              status |-> payload.status, arrival |-> payload.arrival]
  IN  IF hit = {}
        THEN [db EXCEPT !.responses = @ \cup {new}]
        ELSE [db EXCEPT !.responses =
                (@ \ hit) \cup {[r EXCEPT !.user_name = payload.user_name,
                                          !.status = payload.status,
                                          !.arrival = payload.arrival] : r \in hit}]

\* The rows an insert of the items of sequence `items` for plan planId adds.
NewClaims(db, planId, items) ==
  {[id |-> Cardinality(db.claims) + i, plan_id |-> planId, item |-> items[i],
    claimed_by |-> NULL] : i \in DOMAIN items}

\* A claims table with no unique constraint refuses nothing.
InsertNeverConflicts(db, planId, items) == FALSE

\* claims is unique on (plan_id, item): an insert that would repeat a pair is
\* refused whole.
InsertConflicts(db, planId, items) ==
  \E r \in db.claims : r.plan_id = planId /\ r.item \in Range(items)

\* supabase.from("claims").insert(rows)
InsertClaims(db, planId, items) ==
  [db EXCEPT !.claims = @ \cup NewClaims(db, planId, items)]

\* The update with a check that the row is unclaimed (.is("claimed_by", null)).
UpdateClaimIfFree(db, id, v) ==
  [db EXCEPT !.claims = {IF r.id = id /\ r.claimed_by = NULL THEN [r EXCEPT !.claimed_by = v] ELSE r
                           : r \in @}]

\* supabase.from("claims").update({claimed_by: v}).eq("id", id)
UpdateClaim(db, id, v) ==
  [db EXCEPT !.claims = {IF r.id = id THEN [r EXCEPT !.claimed_by = v] ELSE r : r \in @}]

\* ------------------------------------------------------------ the page

PlanType == {EVENT_TYPES[1], EVENT_TYPES[4]}

\* The value of RequestPage state req before a request is loaded (null).
NoReq == [id |-> 0, slug |-> "", title |-> "", type |-> "", note |-> NULL]

\* A tab that has no request page open: it is at the plan's route.
NoRequestPage ==
  [slug |-> "", userKey |-> "", req |-> NoReq, rows |-> <<>>, loading |-> FALSE,
   err |-> NULL, loads |-> EmptyBag, writes |-> EmptyBag,
   route |-> [page |-> "p", slug |-> PlanSlug]]

Init ==
  /\ \E t \in PlanType :
       supabase = [hang_requests |-> {}, availability_windows |-> {},
                   plans |-> {[id |-> 1, slug |-> PlanSlug, type |-> t]},
                   responses |-> {}, claims |-> {}]
  /\ mounted = [c \in Clients |-> TRUE]
  /\ requestPage = NoRequestPage
  /\ slug \in [Clients -> Slugs]
  /\ slug[1] = PlanSlug
  /\ userKey \in [Clients -> UserKeys]
  /\ userKey[1] = "k1"
  /\ plan = [c \in Clients |-> NoPlan]
  /\ responses = [c \in Clients |-> {}]
  /\ claims = [c \in Clients |-> {}]
  /\ loading = [c \in Clients |-> TRUE]
  /\ err = [c \in Clients |-> NULL]
     \* useState(getUserName()): the name the tab's browser has saved
  /\ \E saved \in [UserKeys -> SavedNames] : name = [c \in Clients |-> saved[userKey[c]]]
     \* the mount effect has called load(true), now at its first await
  /\ loads = [c \in Clients |-> SetToBag({[spin |-> TRUE, pc |-> "plan", planId |-> 0]})]
  /\ writes = [c \in Clients |-> EmptyBag]

\* A call of load(showSpinner) up to its first await.
NewLoad(spin) ==
  [spin |-> spin, pc |-> "plan", planId |-> 0]

One(x) == SetToBag({x})

\* myResponse: the displayed row of this browser's user key, as the set of at
\* most one row (empty for null).
myResponse(c) ==
  LET mine == {r \in responses[c] : r.user_key = userKey[c]}
  IN  IF plan[c] = NoPlan \/ mine = {} THEN {} ELSE {Newest(mine)}

\* claims.find((c) => c.item === item), as the set of at most one row.
FindClaim(c, item) ==
  LET rows == {r \in claims[c] : r.item = item}
  IN  IF rows = {} THEN {} ELSE {Newest(rows)}

\* The page shows its controls once it is past "Loading..." and "Plan not found."
Rendered(c) == ~loading[c] /\ plan[c] # NoPlan

\* A poll effect whose interval never fires.
TickNever(c) == FALSE /\ UNCHANGED vars

\* The poll effect's interval fires: load(false) runs to its first await.
Tick(c) ==
  /\ BagCardinality(loads[c]) < MaxLoads
  /\ err' = [err EXCEPT ![c] = NULL]
  /\ loads' = [loads EXCEPT ![c] = @ (+) One(NewLoad(FALSE))]
  /\ UNCHANGED <<supabase, slug, userKey, mounted, requestPage, plan, responses, claims, loading, name, writes>>

\* The filter of ensurePotluckDefaults losing the first default item.
missingButFirst(c) ==
  SelectSeq(Tail(DEFAULT_POTLUCK_ITEMS), LAMBDA i : i \notin {r.item : r \in claims[c]})

\* ensurePotluckDefaults as the seeding effect runs it, in the render that
\* follows setPlan: the items missing from the claims of that render.
missing(c) ==
  SelectSeq(DEFAULT_POTLUCK_ITEMS, LAMBDA i : i \notin {r.item : r \in claims[c]})

\* load L resumes with the answer r of the plans select.
PlanAnswer(c, L, r) ==
  /\ L.pc = "plan"
  /\ IF r.error # NULL
       THEN /\ err' = [err EXCEPT ![c] = r.error]
            /\ loading' = [loading EXCEPT ![c] = IF L.spin THEN FALSE ELSE @]
            /\ loads' = [loads EXCEPT ![c] = @ (-) One(L)]
            /\ UNCHANGED <<plan, writes>>
       ELSE LET p == CHOOSE x \in r.data : TRUE
                seed == plan[c].id # p.id /\ isPotluck(p.type) /\ missing(c) # <<>>
            IN  /\ plan' = [plan EXCEPT ![c] = p]
                /\ loads' = [loads EXCEPT ![c] =
                               (@ (-) One(L)) (+) One([L EXCEPT !.pc = "responses", !.planId = p.id])]
                /\ writes' = [writes EXCEPT ![c] =
                                IF seed
                                  THEN @ (+) One([fn |-> "ensurePotluckDefaults",
                                                  arg |-> [plan_id |-> p.id, items |-> missing(c)]])
                                  ELSE @]
                /\ UNCHANGED <<err, loading>>
  /\ UNCHANGED <<supabase, slug, userKey, mounted, requestPage, responses, claims, name>>

\* load L resumes with the answer r of the responses select.
ResponsesAnswer(c, L, r) ==
  /\ L.pc = "responses"
  /\ err' = [err EXCEPT ![c] = IF r.error # NULL THEN r.error ELSE @]
  /\ responses' = [responses EXCEPT ![c] = r.data]
  /\ loads' = [loads EXCEPT ![c] = (@ (-) One(L)) (+) One([L EXCEPT !.pc = "claims"])]
  /\ UNCHANGED <<supabase, slug, userKey, mounted, requestPage, plan, claims, loading, name, writes>>

\* load L resumes with the answer r of the claims select, and returns.
ClaimsAnswer(c, L, r) ==
  /\ L.pc = "claims"
  /\ err' = [err EXCEPT ![c] = IF r.error # NULL THEN r.error ELSE @]
  /\ claims' = [claims EXCEPT ![c] = r.data]
  /\ loading' = [loading EXCEPT ![c] = IF L.spin THEN FALSE ELSE @]
  /\ loads' = [loads EXCEPT ![c] = @ (-) One(L)]
  /\ UNCHANGED <<supabase, slug, userKey, mounted, requestPage, plan, responses, name, writes>>

\* The store answers the select a load of tab c waits for.
LoadPlan(c) ==
  \E L \in BagToSet(loads[c]) : PlanAnswer(c, L, SelectPlan(supabase, slug[c]))

LoadResponses(c) ==
  \E L \in BagToSet(loads[c]) : ResponsesAnswer(c, L, SelectResponses(supabase, L.planId))

LoadClaims(c) ==
  \E L \in BagToSet(loads[c]) : ClaimsAnswer(c, L, SelectClaims(supabase, L.planId))

\* The select a load of tab c waits for fails.
LoadPlanFails(c) ==
  \E L \in BagToSet(loads[c]) : PlanAnswer(c, L, FailedSelect)

LoadResponsesFails(c) ==
  \E L \in BagToSet(loads[c]) : ResponsesAnswer(c, L, FailedSelect)

LoadClaimsFails(c) ==
  \E L \in BagToSet(loads[c]) : ClaimsAnswer(c, L, FailedSelect)

\* The name field changes (onChange of the input).
SetName(c) ==
  /\ Rendered(c)
  /\ \E n \in NameInputs \ {name[c]} : name' = [name EXCEPT ![c] = n]
  /\ UNCHANGED <<supabase, slug, userKey, mounted, requestPage, plan, responses, claims, loading, err, loads, writes>>

\* The payload setRSVP(status) sends: the arrival is the one of the displayed row.
RSVPPayload(c, status) ==
  [plan_id |-> plan[c].id, user_key |-> userKey[c], user_name |-> trim(name[c]),
   status |-> status,
   arrival |-> IF myResponse(c) = {} THEN NULL ELSE Newest(myResponse(c)).arrival]

\* The payload setArrival(arrival) sends: the status is the one of the displayed row.
ArrivalPayload(c, arrival) ==
  [plan_id |-> plan[c].id, user_key |-> userKey[c], user_name |-> trim(name[c]),
   status |-> IF myResponse(c) = {} THEN "maybe" ELSE Newest(myResponse(c)).status,
   arrival |-> arrival]

\* A handler up to its store call: the name check, then the request goes out.
Submit(c, fn, arg) ==
  /\ trim(name[c]) # "" => BagCardinality(writes[c]) < MaxWrites
  /\ IF trim(name[c]) = ""
       THEN /\ err' = [err EXCEPT ![c] = NameError]
            /\ UNCHANGED writes
       ELSE /\ err' = [err EXCEPT ![c] = NULL]
            /\ writes' = [writes EXCEPT ![c] = @ (+) One([fn |-> fn, arg |-> arg])]
  /\ UNCHANGED <<supabase, slug, userKey, mounted, requestPage, plan, responses, claims, loading, name, loads>>

\* A click on In / Maybe / Out: setRSVP(status) up to its await.
setRSVP(c) ==
  /\ Rendered(c)
  /\ \E status \in StatusInputs : Submit(c, "setRSVP", RSVPPayload(c, status))

\* A choice in the arrival select of a playdate: setArrival(arrival) up to its await.
setArrival(c) ==
  /\ Rendered(c)
  /\ isPlaydate(plan[c].type)
  /\ \E arrival \in ArrivalInputs : Submit(c, "setArrival", ArrivalPayload(c, arrival))

\* The update claimItem(item) sends: the displayed row of the item, by its id.
ClaimUpdate(c, item) == [id |-> Newest(FindClaim(c, item)).id, claimed_by |-> trim(name[c])]

\* A click on Claim, shown on an item displayed unclaimed: claimItem(item) up to
\* its await.
claimItem(c) ==
  /\ Rendered(c)
  /\ isPotluck(plan[c].type)
  /\ \E row \in claims[c] :
       /\ row.item \in ClickedItems
       /\ row.claimed_by \in {NULL, ""}
       /\ Submit(c, "claimItem", ClaimUpdate(c, row.item))

\* The check against the name as typed (name instead of name.trim()).
MayUnclaimUntrimmed(c, existing) ==
  (IF existing.claimed_by = NULL THEN "" ELSE existing.claimed_by) = name[c]

\* unclaimItem's check: the displayed claimant is the name in the name field.
MayUnclaim(c, existing) ==
  (IF existing.claimed_by = NULL THEN "" ELSE existing.claimed_by) = trim(name[c])

\* A click on Unclaim, shown on an item displayed as claimed by the name in the
\* name field: unclaimItem(item) up to its await.
unclaimItem(c) ==
  /\ Rendered(c)
  /\ isPotluck(plan[c].type)
  /\ \E row \in claims[c] :
       /\ row.item \in ClickedItems
       /\ row.claimed_by \notin {NULL, ""}
       /\ row.claimed_by = trim(name[c])
       /\ LET existing == Newest(FindClaim(c, row.item))
          IN  IF ~MayUnclaim(c, existing)
                THEN /\ err' = [err EXCEPT ![c] = UnclaimError]
                     /\ UNCHANGED writes
                ELSE /\ BagCardinality(writes[c]) < MaxWrites
                     /\ err' = [err EXCEPT ![c] = NULL]
                     /\ writes' = [writes EXCEPT ![c] =
                                     @ (+) One([fn |-> "unclaimItem",
                                                arg |-> [id |-> existing.id, claimed_by |-> NULL]])]
  /\ UNCHANGED <<supabase, slug, userKey, mounted, requestPage, plan, responses, claims, loading, name, loads>>

\* What the store holds once it has applied the write of handler w.
Applied(db, w) ==
  CASE w.fn \in {"setRSVP", "setArrival"} -> Upsert(db, w.arg)
    [] w.fn = "ensurePotluckDefaults" -> InsertClaims(db, w.arg.plan_id, w.arg.items)
    [] w.fn \in {"claimItem", "unclaimItem"} -> UpdateClaim(db, w.arg.id, w.arg.claimed_by)

\* The error the store answers the write of handler w with, NULL when it applies it.
Refusal(db, w) ==
  IF w.fn = "ensurePotluckDefaults" /\ InsertConflicts(db, w.arg.plan_id, w.arg.items)
    THEN DuplicateError
    ELSE NULL

\* Handler w resumes with the answer (error, or NULL and the write applied) of
\* its store call: setRSVP, setArrival, claimItem and unclaimItem show an error
\* and return, or go on to load(false); ensurePotluckDefaults goes on to
\* load(false) either way, whose first statement clears err.
WriteAnswer(c, w, error) ==
  /\ writes' = [writes EXCEPT ![c] = @ (-) One(w)]
  /\ supabase' = IF error = NULL THEN Applied(supabase, w) ELSE supabase
  /\ Cardinality(supabase'.responses) <= MaxRows
  /\ Cardinality(supabase'.claims) <= MaxRows
  /\ IF error # NULL /\ w.fn # "ensurePotluckDefaults"
       THEN /\ err' = [err EXCEPT ![c] = error]
            /\ UNCHANGED loads
       ELSE /\ BagCardinality(loads[c]) < MaxLoads
            /\ err' = [err EXCEPT ![c] = NULL]
            /\ loads' = [loads EXCEPT ![c] = @ (+) One(NewLoad(FALSE))]
  /\ UNCHANGED <<slug, userKey, mounted, requestPage, plan, responses, claims, loading, name>>

\* The store answers the write a handler of tab c waits for.
WriteReply(c) ==
  \E w \in BagToSet(writes[c]) : WriteAnswer(c, w, Refusal(supabase, w))

\* The write a handler of tab c waits for fails.
WriteFails(c) ==
  \E w \in BagToSet(writes[c]) : WriteAnswer(c, w, WriteError)

\* Tab c navigates away from the plan: PlanPage unmounts and the cleanup of the
\* poll effect clears the interval. Nothing else is cancelled.
Unmount(c) ==
  /\ mounted[c]
  /\ mounted' = [mounted EXCEPT ![c] = FALSE]
  /\ UNCHANGED <<supabase, slug, userKey, requestPage, plan, responses, claims, loading, err,
                 name, loads, writes>>

\* A load of tab c that was in flight when the page unmounted resumes from its
\* await with the answer of its select (or its failure) and runs on to its
\* next select or to its end; its set-state calls change nothing any more.
LoadUnmounted(c) ==
  /\ ~mounted[c]
  /\ \E L \in BagToSet(loads[c]) :
       \E r \in {FailedSelect,
                 CASE L.pc = "plan" -> SelectPlan(supabase, slug[c])
                   [] L.pc = "responses" -> SelectResponses(supabase, L.planId)
                   [] L.pc = "claims" -> SelectClaims(supabase, L.planId)} :
         loads' = [loads EXCEPT ![c] =
                     CASE L.pc = "plan" /\ r.error # NULL -> @ (-) One(L)
                       [] L.pc = "plan" /\ r.error = NULL ->
                            (@ (-) One(L)) (+) One([L EXCEPT !.pc = "responses",
                                                             !.planId = (CHOOSE x \in r.data : TRUE).id])
                       [] L.pc = "responses" -> (@ (-) One(L)) (+) One([L EXCEPT !.pc = "claims"])
                       [] L.pc = "claims" -> @ (-) One(L)]
  /\ UNCHANGED <<supabase, slug, userKey, mounted, requestPage, plan, responses, claims,
                 loading, err, name, writes>>

\* A write handler of tab c that was at its store call when the page unmounted
\* resumes: the store has applied or refused the write, and the handler goes on
\* to load(false) as it does on a mounted page.
WriteUnmounted(c) ==
  /\ ~mounted[c]
  /\ \E w \in BagToSet(writes[c]) : \E error \in {Refusal(supabase, w), WriteError} :
       /\ writes' = [writes EXCEPT ![c] = @ (-) One(w)]
       /\ supabase' = IF error = NULL THEN Applied(supabase, w) ELSE supabase
       /\ IF error # NULL /\ w.fn # "ensurePotluckDefaults"
            THEN UNCHANGED loads
            ELSE /\ BagCardinality(loads[c]) < MaxLoads
                 /\ loads' = [loads EXCEPT ![c] = @ (+) One(NewLoad(FALSE))]
  /\ UNCHANGED <<slug, userKey, mounted, requestPage, plan, responses, claims, loading, err, name>>

\* ------------------------------------------------------ the request page

\* The variables of the plan pages, which the request page leaves alone.
planPageVars == <<slug, userKey, plan, responses, claims, loading, err, name, loads, writes,
                  mounted>>

\* The rows of a set as a select ordered by created_at descending lists them.
RECURSIVE Descending(_)
Descending(rows) ==
  IF rows = {} THEN <<>> ELSE <<Newest(rows)>> \o Descending(rows \ {Newest(rows)})

\* supabase.from("hang_requests").select("*").eq("slug", s).single()
SelectRequest(db, s) ==
  LET rows == {q \in db.hang_requests : q.slug = s}
  IN  IF Cardinality(rows) = 1
        THEN [error |-> NULL, data |-> rows]
        ELSE [error |-> NoRowsError, data |-> {}]

\* supabase.from("availability_windows").select("*").eq("request_id", reqId)
\*   .order("created_at", {ascending: false})
SelectWindows(db, reqId) ==
  [error |-> NULL, data |-> Descending({w \in db.availability_windows : w.request_id = reqId})]

\* A windows select that did not reach the store: no data, which load turns into [].
FailedWindows == [error |-> FetchError, data |-> <<>>]

\* supabase.from("availability_windows").insert(payload)
InsertWindow(db, payload) ==
  [db EXCEPT !.availability_windows =
     @ \cup {[id |-> Cardinality(db.availability_windows) + 1,
              request_id |-> payload.request_id, user_key |-> payload.user_key,
              user_name |-> payload.user_name, start_ts |-> payload.start_ts,
              end_ts |-> payload.end_ts]}]

\* plans is unique on slug: an insert that repeats a slug is refused.
PlanRefusal(db, payload) ==
  IF \E p \in db.plans : p.slug = payload.slug THEN DuplicateError ELSE NULL

\* supabase.from("plans").insert(payload)
InsertPlan(db, payload) ==
  [db EXCEPT !.plans =
     @ \cup {[id |-> Cardinality(db.plans) + 1, slug |-> payload.slug,
              request_id |-> payload.request_id, title |-> payload.title,
              type |-> payload.type, note |-> payload.note,
              start_ts |-> payload.start_ts, end_ts |-> payload.end_ts]}]

\* The smaller of two numbers where Math.max is called for.
Smaller(a, b) == IF a <= b THEN a ELSE b

Max(a, b) == IF a >= b THEN a ELSE b

Min(a, b) == IF a <= b THEN a ELSE b

\* overlapMinutes without its test ms > 0: the distance between the two
\* instants, whichever comes first.
overlapMinutesUnsigned(aStart, aEnd, bStart, bEnd) ==
  LET start == Max(aStart, bStart)
      end == Min(aEnd, bEnd)
      ms == end - start
  IN  [num |-> IF ms >= 0 THEN ms ELSE 0 - ms, den |-> MsPerMinute]

\* overlapMinutes(aStart, aEnd, bStart, bEnd), the arguments being the getTime()
\* of the four dates: ms > 0 ? ms / 60000 : 0, as the fraction num / den.
overlapMinutes(aStart, aEnd, bStart, bEnd) ==
  LET start == Max(aStart, bStart)
      end == Min(aEnd, bEnd)
      ms == end - start
  IN  IF ms > 0 THEN [num |-> ms, den |-> MsPerMinute] ELSE [num |-> 0, den |-> MsPerMinute]

\* mins > n
MoreThan(mins, n) == mins.num > n * mins.den

\* mins >= n
AtLeast(mins, n) == mins.num >= n * mins.den

\* Math.round(mins): the nearest integer, halves upwards.
MathRound(mins) == (2 * mins.num + mins.den) \div (2 * mins.den)

\* rows.map(...): the dates of each row.
WindowsOf(rows) ==
  [i \in DOMAIN rows |-> [start |-> DateOfISO(rows[i].start_ts), end |-> DateOfISO(rows[i].end_ts)]]

\* The two nested loops of overlaps from pair (i, j) on: the pairs i < j in
\* order, each pushing its intersection when it lasts MinOverlap minutes.
RECURSIVE PairwiseFrom(_, _, _)
PairwiseFrom(windows, i, j) ==
  IF i > Len(windows) THEN <<>>
  ELSE IF j > Len(windows) THEN PairwiseFrom(windows, i + 1, i + 2)
  ELSE LET a == windows[i]
           b == windows[j]
           mins == overlapMinutes(a.start, a.end, b.start, b.end)
       IN  (IF AtLeast(mins, MinOverlap)
              THEN <<[start |-> Max(a.start, b.start), end |-> Min(a.end, b.end),
                      minutes |-> MathRound(mins)]>>
              ELSE <<>>)
           \o PairwiseFrom(windows, i, j + 1)

\* The key of the de-dupe: start.toISOString() + "_" + end.toISOString().
KeyOf(o) == <<toISOString(o.start), toISOString(o.end)>>

\* A filter that keeps every entry.
RECURSIVE KeepAll(_, _)
KeepAll(out, seen) ==
  IF out = <<>> THEN <<>> ELSE <<Head(out)>> \o KeepAll(Tail(out), seen)

\* out.filter(...): the first entry of each key.
RECURSIVE Dedupe(_, _)
Dedupe(out, seen) ==
  IF out = <<>> THEN <<>>
  ELSE IF KeyOf(Head(out)) \in seen THEN Dedupe(Tail(out), seen)
  ELSE <<Head(out)>> \o Dedupe(Tail(out), seen \cup {KeyOf(Head(out))})

\* Array.prototype.sort by a.start - b.start (stable): entry o goes behind the
\* entries of the sorted list that start no later.
RECURSIVE InsertByStart(_, _)
InsertByStart(o, sorted) ==
  IF sorted = <<>> THEN <<o>>
  ELSE IF Head(sorted).start - o.start <= 0 THEN <<Head(sorted)>> \o InsertByStart(o, Tail(sorted))
  ELSE <<o>> \o sorted

RECURSIVE SortByStart(_)
SortByStart(list) ==
  IF list = <<>> THEN <<>>
  ELSE InsertByStart(list[Len(list)], SortByStart(SubSeq(list, 1, Len(list) - 1)))

\* The memo overlaps of the rows displayed.
overlaps(rows) ==
  LET out == PairwiseFrom(WindowsOf(rows), 1, 2)
      deduped == SortByStart(Dedupe(out, {}))
  IN  SubSeq(deduped, 1, Min(Len(deduped), MaxOverlaps))

\* A call of load() of the request page up to its first await.
StartLoad(rp) ==
  [rp EXCEPT !.loading = TRUE, !.err = NULL,
             !.loads = @ (+) One([pc |-> "req", reqId |-> 0])]

\* The request page shows its form and its lists once it is past "Loading..."
\* and "Request not found.", until the tab moves to a plan.
RequestRendered ==
  ~requestPage.loading /\ requestPage.req # NoReq /\ requestPage.route.page = "r"

\* load L of the request page resumes with the answer r of the request select.
ReqAnswer(L, r) ==
  /\ L.pc = "req"
  /\ requestPage' =
       IF r.error # NULL
         THEN [requestPage EXCEPT !.err = r.error, !.loading = FALSE, !.loads = @ (-) One(L)]
         ELSE LET q == CHOOSE x \in r.data : TRUE
              IN  [requestPage EXCEPT !.req = q,
                     !.loads = (@ (-) One(L)) (+) One([L EXCEPT !.pc = "windows", !.reqId = q.id])]
  /\ UNCHANGED <<supabase, planPageVars>>

\* load L of the request page resumes with the answer r of the windows select,
\* and returns.
WindowsAnswer(L, r) ==
  /\ L.pc = "windows"
  /\ requestPage' = [requestPage EXCEPT !.err = IF r.error # NULL THEN r.error ELSE @,
                                        !.rows = r.data, !.loading = FALSE,
                                        !.loads = @ (-) One(L)]
  /\ UNCHANGED <<supabase, planPageVars>>

LoadReq ==
  \E L \in BagToSet(requestPage.loads) : ReqAnswer(L, SelectRequest(supabase, requestPage.slug))

LoadWindows ==
  \E L \in BagToSet(requestPage.loads) : WindowsAnswer(L, SelectWindows(supabase, L.reqId))

LoadReqFails ==
  \E L \in BagToSet(requestPage.loads) : ReqAnswer(L, [error |-> FetchError, data |-> {}])

LoadWindowsFails ==
  \E L \in BagToSet(requestPage.loads) : WindowsAnswer(L, FailedWindows)

\* The checks of addWindow without the one on the order of start and end.
WindowErrorNoOrder(n, start, end) ==
  IF trim(n) = "" THEN NameError
  ELSE IF start = NaN \/ end = NaN THEN DateError
  ELSE NULL

\* The checks of addWindow on the name typed and on the getTime() of the two
\* dates: the error it sets, NULL when it goes on to the insert.
WindowError(n, start, end) ==
  IF trim(n) = "" THEN NameError
  ELSE IF start = NaN \/ end = NaN THEN DateError
  ELSE IF end <= start THEN OrderError
  ELSE NULL

\* A click on Add window, the form holding name n and the two local times:
\* addWindow up to its await.
addWindow ==
  /\ RequestRendered
  /\ \E n \in NameInputs : \E startLocal \in StartInputs : \E endLocal \in EndInputs :
       LET start == DateOfLocal(startLocal)
           end == DateOfLocal(endLocal)
           error == WindowError(n, start, end)
       IN  IF error # NULL
             THEN requestPage' = [requestPage EXCEPT !.err = error]
             ELSE /\ BagCardinality(requestPage.writes) < MaxWrites
                  /\ requestPage' =
                       [requestPage EXCEPT !.err = NULL,
                          !.writes = @ (+) One([fn |-> "addWindow",
                             arg |-> [request_id |-> requestPage.req.id,
                                      user_key |-> requestPage.userKey,
                                      user_name |-> trim(n),
                                      start_ts |-> toISOString(start),
                                      end_ts |-> toISOString(end)]])]
  /\ UNCHANGED <<supabase, planPageVars>>

\* addWindow resumes with the answer of its insert: it shows the error, or the
\* store has the row and it goes on to load().
WindowInsertAnswer(w, error) ==
  /\ w.fn = "addWindow"
  /\ supabase' = IF error = NULL THEN InsertWindow(supabase, w.arg) ELSE supabase
  /\ Cardinality(supabase'.availability_windows) <= MaxWindows
  /\ requestPage' =
       IF error # NULL
         THEN [requestPage EXCEPT !.writes = @ (-) One(w), !.err = error]
         ELSE StartLoad([requestPage EXCEPT !.writes = @ (-) One(w)])
  /\ UNCHANGED planPageVars

AddWindowReply ==
  /\ Cardinality(supabase.availability_windows) < MaxAdded
  /\ \E w \in BagToSet(requestPage.writes) : WindowInsertAnswer(w, NULL)

AddWindowFails ==
  \E w \in BagToSet(requestPage.writes) : WindowInsertAnswer(w, WriteError)

\* The plans row of createPlanFromOverlap with the dates exchanged.
PlanPayloadSwapped(req, planSlug, start, end) ==
  [slug |-> planSlug, request_id |-> req.id, title |-> req.title, type |-> req.type,
   note |-> req.note, start_ts |-> toISOString(end), end_ts |-> toISOString(start)]

\* The plans row createPlanFromOverlap(start, end) inserts.
PlanPayload(req, planSlug, start, end) ==
  [slug |-> planSlug, request_id |-> req.id, title |-> req.title, type |-> req.type,
   note |-> req.note, start_ts |-> toISOString(start), end_ts |-> toISOString(end)]

\* A click on a suggested overlap: createPlanFromOverlap(o.start, o.end) up to
\* its await.
createPlanFromOverlap ==
  /\ RequestRendered
  /\ BagCardinality(requestPage.writes) < MaxWrites
  /\ \E i \in DOMAIN overlaps(requestPage.rows) : \E planSlug \in NanoidOutputs :
       LET o == overlaps(requestPage.rows)[i]
       IN  requestPage' =
             [requestPage EXCEPT
                !.writes = @ (+) One([fn |-> "createPlanFromOverlap",
                                      arg |-> PlanPayload(requestPage.req, planSlug, o.start, o.end)])]
  /\ UNCHANGED <<supabase, planPageVars>>

\* A createPlanFromOverlap that moves to the plan's page whatever the answer.
PushesAlways(error) == TRUE

\* createPlanFromOverlap reaches router.push only past its error check.
Pushes(error) == error = NULL

\* createPlanFromOverlap resumes with the answer of its insert: it shows the
\* error, or the store has the plan and the tab moves to the plan's page.
PlanInsertAnswer(w, error) ==
  /\ w.fn = "createPlanFromOverlap"
  /\ supabase' = IF error = NULL THEN InsertPlan(supabase, w.arg) ELSE supabase
  /\ requestPage' =
       [requestPage EXCEPT !.writes = @ (-) One(w),
                           !.err = IF error # NULL THEN error ELSE @,
                           !.route = IF Pushes(error) THEN [page |-> "p", slug |-> w.arg.slug] ELSE @]
  /\ UNCHANGED planPageVars

CreatePlanReply ==
  \E w \in BagToSet(requestPage.writes) : PlanInsertAnswer(w, PlanRefusal(supabase, w.arg))

CreatePlanFails ==
  \E w \in BagToSet(requestPage.writes) : PlanInsertAnswer(w, PlanWriteError)

\* One tab (the others stay at their first fetch): everything the page and the
\* store can do, failures of the store included.
Solo == {1}

InitSolo ==
  /\ Init
  /\ \A c \in Clients \ Solo : slug[c] = PlanSlug /\ userKey[c] = "k2" /\ name[c] = ""

Next ==
  \E c \in Solo :
    \/ Tick(c)
    \/ LoadPlan(c)
    \/ LoadResponses(c)
    \/ LoadClaims(c)
    \/ LoadPlanFails(c)
    \/ LoadResponsesFails(c)
    \/ LoadClaimsFails(c)
    \/ SetName(c)
    \/ setRSVP(c)
    \/ setArrival(c)
    \/ claimItem(c)
    \/ unclaimItem(c)
    \/ WriteReply(c)
    \/ WriteFails(c)

Spec == InitSolo /\ [][Next]_vars

\* In the specifications of several tabs a tab has one load in flight at a
\* time: the poll fires, and the answer to a write arrives, while no load of
\* the tab is in flight.
TickIdle(c) == loads[c] = EmptyBag /\ Tick(c)

WriteReplyIdle(c) == loads[c] = EmptyBag /\ WriteReply(c)

\* Every tab has the plan's page open, with the name its browser has saved.
InitTabs ==
  /\ Init
  /\ \A c \in Clients : slug[c] = PlanSlug
  /\ \A c \in Clients : name[c] = (IF userKey[c] = "k1" THEN "Ann" ELSE "Bob")

\* Tabs of one browser or of several on a playdate plan; the store answers
\* every call.
InitRsvp == InitTabs /\ \A p \in supabase.plans : isPlaydate(p.type)

NextRsvp ==
  \E c \in Clients :
    \/ TickIdle(c)
    \/ LoadPlan(c)
    \/ LoadResponses(c)
    \/ LoadClaims(c)
    \/ setRSVP(c)
    \/ setArrival(c)
    \/ WriteReplyIdle(c)

SpecRsvp == InitRsvp /\ [][NextRsvp]_vars

\* Tabs of one browser or of several on a potluck plan; any call of the store
\* may fail.
InitPotluck == InitTabs /\ \A p \in supabase.plans : isPotluck(p.type)

NextPotluck ==
  \E c \in Clients :
    \/ TickIdle(c)
    \/ LoadPlan(c)
    \/ LoadResponses(c)
    \/ LoadClaims(c)
    \/ claimItem(c)
    \/ unclaimItem(c)
    \/ WriteReplyIdle(c)
    \/ LoadPlanFails(c)
    \/ LoadResponsesFails(c)
    \/ LoadClaimsFails(c)
    \/ WriteFails(c)

SpecPotluck == InitPotluck /\ [][NextPotluck]_vars

\* One tab that opens the plan and at some point navigates away from it.
NextLeave ==
  \E c \in Solo :
    \/ mounted[c] /\ Tick(c)
    \/ mounted[c] /\ LoadPlan(c)
    \/ mounted[c] /\ LoadResponses(c)
    \/ mounted[c] /\ LoadClaims(c)
    \/ mounted[c] /\ LoadPlanFails(c)
    \/ mounted[c] /\ WriteReply(c)
    \/ Unmount(c)
    \/ LoadUnmounted(c)
    \/ WriteUnmounted(c)

SpecLeave == InitSolo /\ [][NextLeave]_vars

\* The requests the page can be opened on, as createRequest stores them (with
\* no title typed the title is the type), and a plan that exists already, made
\* of no request (request_id 0).
Requests ==
  {[id |-> 1, slug |-> RequestSlug, title |-> EVENT_TYPES[1], type |-> EVENT_TYPES[1],
    note |-> NULL],
   [id |-> 1, slug |-> RequestSlug, title |-> "Park", type |-> EVENT_TYPES[4],
    note |-> "bring snacks"]}

EarlierPlan ==
  [id |-> 1, slug |-> PlanSlug, request_id |-> 0, title |-> "Picnic", type |-> EVENT_TYPES[1],
   note |-> NULL, start_ts |-> toISOString(DateOfLocal(LocalTimes[1])),
   end_ts |-> toISOString(DateOfLocal(LocalTimes[5]))]

\* The availability_windows rows of the request, the i-th created being the
\* i-th window of the sequence (a pair of a start and an end field value),
\* submitted by the two browsers in turn.
StoredWindows(windows) ==
  {[id |-> i, request_id |-> 1,
    user_key |-> IF i % 2 = 1 THEN "k2" ELSE "k1",
    user_name |-> IF i % 2 = 1 THEN "Bob" ELSE "Ann",
    start_ts |-> toISOString(DateOfLocal(windows[i][1])),
    end_ts |-> toISOString(DateOfLocal(windows[i][2]))] : i \in DOMAIN windows}

\* A tab opens the request's page, no plan page being open: the mount effect
\* has called load(), now at its first await.
InitRequestPage(windows, requests) ==
  /\ \E q \in requests :
       supabase = [hang_requests |-> {q},
                   availability_windows |-> StoredWindows(windows),
                   plans |-> {EarlierPlan}, responses |-> {}, claims |-> {}]
  /\ slug = [c \in Clients |-> PlanSlug]
  /\ userKey = [c \in Clients |-> IF c = 1 THEN "k1" ELSE "k2"]
  /\ plan = [c \in Clients |-> NoPlan]
  /\ responses = [c \in Clients |-> {}]
  /\ claims = [c \in Clients |-> {}]
  /\ loading = [c \in Clients |-> TRUE]
  /\ err = [c \in Clients |-> NULL]
  /\ name = [c \in Clients |-> ""]
  /\ loads = [c \in Clients |-> EmptyBag]
  /\ writes = [c \in Clients |-> EmptyBag]
  /\ mounted = [c \in Clients |-> FALSE]
  /\ requestPage =
       [slug |-> RequestSlug, userKey |-> "k1", req |-> NoReq, rows |-> <<>>, loading |-> TRUE,
        err |-> NULL, loads |-> One([pc |-> "req", reqId |-> 0]), writes |-> EmptyBag,
        route |-> [page |-> "r", slug |-> RequestSlug]]

\* The request page of a request that has no window yet, or one of the other
\* browser: windows are added and an overlap is made a plan; any call of the
\* store may fail.
InitRequest ==
  \E windows \in {<<>>, <<<<LocalTimes[3], LocalTimes[7]>>>>} : InitRequestPage(windows, Requests)

NextRequest ==
  \/ LoadReq
  \/ LoadWindows
  \/ LoadReqFails
  \/ LoadWindowsFails
  \/ addWindow
  \/ AddWindowReply
  \/ AddWindowFails
  \/ createPlanFromOverlap
  \/ CreatePlanReply
  \/ CreatePlanFails

SpecRequest == InitRequest /\ [][NextRequest]_vars

\* The other participant, in their own tab on the same request, adds a window:
\* their addWindow has passed its checks and the store applies its insert.
OtherAddsWindow ==
  /\ Cardinality(supabase.availability_windows) < MaxAdded + 1
  /\ \E q \in supabase.hang_requests : \E startLocal \in StartInputs : \E endLocal \in EndInputs :
       LET start == DateOfLocal(startLocal)
           end == DateOfLocal(endLocal)
       IN  /\ WindowError("Bob", start, end) = NULL
           /\ supabase' = InsertWindow(supabase,
                             [request_id |-> q.id, user_key |-> "k2", user_name |-> trim("Bob"),
                              start_ts |-> toISOString(start), end_ts |-> toISOString(end)])
  /\ UNCHANGED <<requestPage, planPageVars>>

\* The request page of one participant while the other adds windows too.
NextShared ==
  \/ NextRequest
  \/ OtherAddsWindow

SpecShared == InitRequest /\ [][NextShared]_vars

\* The windows a request can hold when its page is opened: five of an hour and
\* a half that start a quarter of an hour apart, a short one and a late one.
WindowInputs ==
  {<<LocalTimes[i], LocalTimes[i + 6]>> : i \in 1..5}
    \cup {<<LocalTimes[6], LocalTimes[8]>>, <<LocalTimes[10], LocalTimes[11]>>}

RECURSIVE SeqsUpTo(_, _)
SeqsUpTo(S, n) ==
  IF n = 0 THEN {<<>>}
  ELSE LET shorter == SeqsUpTo(S, n - 1)
       IN  shorter \cup {Append(q, x) : q \in {t \in shorter : Len(t) = n - 1}, x \in S}

\* The request page opened on a request that holds any windows: the page loads
\* them and shows their overlaps.
InitOverlap ==
  \E windows \in SeqsUpTo(WindowInputs, MaxWindows) :
    InitRequestPage(windows, {q \in Requests : q.note = NULL})

NextOverlap ==
  \/ LoadReq
  \/ LoadWindows

SpecOverlap == InitOverlap /\ [][NextOverlap]_vars

\* A potluck somebody else has opened before: its plan and its five claim rows,
\* the first of them claimed.
OtherPotluck == [id |-> 2, slug |-> "p2", type |-> EVENT_TYPES[1]]

OtherPotluckClaims ==
  {[id |-> i, plan_id |-> OtherPotluck.id, item |-> DEFAULT_POTLUCK_ITEMS[i],
    claimed_by |-> IF i = 1 THEN "Ann" ELSE NULL] : i \in DOMAIN DEFAULT_POTLUCK_ITEMS}

\* Two participants, each in their own browser, open a playdate plan of a store
\* that also holds the potluck; the store answers every call.
InitGuests ==
  /\ supabase = [hang_requests |-> {}, availability_windows |-> {},
                 plans |-> {[id |-> 1, slug |-> PlanSlug, type |-> EVENT_TYPES[4]], OtherPotluck},
                 responses |-> {}, claims |-> OtherPotluckClaims]
  /\ mounted = [c \in Clients |-> TRUE]
  /\ requestPage = NoRequestPage
  /\ slug = [c \in Clients |-> PlanSlug]
  /\ userKey = [c \in Clients |-> IF c = 1 THEN "k1" ELSE "k2"]
  /\ plan = [c \in Clients |-> NoPlan]
  /\ responses = [c \in Clients |-> {}]
  /\ claims = [c \in Clients |-> {}]
  /\ loading = [c \in Clients |-> TRUE]
  /\ err = [c \in Clients |-> NULL]
  /\ name = [c \in Clients |-> IF c = 1 THEN "Ann" ELSE "Bob"]
  /\ loads = [c \in Clients |-> One(NewLoad(TRUE))]
  /\ writes = [c \in Clients |-> EmptyBag]

SpecGuests == InitGuests /\ [][NextRsvp]_vars

\* The selects of load in two steps each, for a fetch whose answer travels
\* while the store moves on: the store runs the select of load L, the answer
\* (L with its data) being on its way back; then the await resumes with it.
Answered(L, pc, data) == [spin |-> L.spin, pc |-> pc, planId |-> L.planId, data |-> data]

Asking(L, pc) == [spin |-> L.spin, pc |-> pc, planId |-> L.planId]

ReadResponses(c) ==
  /\ \E L \in BagToSet(loads[c]) :
       /\ L.pc = "responses"
       /\ loads' = [loads EXCEPT ![c] =
                      (@ (-) One(L))
                        (+) One(Answered(L, "responsesAnswer", SelectResponses(supabase, L.planId).data))]
  /\ UNCHANGED <<supabase, slug, userKey, mounted, requestPage, plan, responses, claims,
                 loading, err, name, writes>>

\* setResponses(respData), and the claims select goes out.
DeliverResponses(c) ==
  /\ \E L \in BagToSet(loads[c]) :
       /\ L.pc = "responsesAnswer"
       /\ responses' = [responses EXCEPT ![c] = L.data]
       /\ loads' = [loads EXCEPT ![c] = (@ (-) One(L)) (+) One(Asking(L, "claims"))]
  /\ UNCHANGED <<supabase, slug, userKey, mounted, requestPage, plan, claims, loading, err,
                 name, writes>>

ReadClaims(c) ==
  /\ \E L \in BagToSet(loads[c]) :
       /\ L.pc = "claims"
       /\ loads' = [loads EXCEPT ![c] =
                      (@ (-) One(L))
                        (+) One(Answered(L, "claimsAnswer", SelectClaims(supabase, L.planId).data))]
  /\ UNCHANGED <<supabase, slug, userKey, mounted, requestPage, plan, responses, claims,
                 loading, err, name, writes>>

\* setClaims(claimData), and load returns.
DeliverClaims(c) ==
  /\ \E L \in BagToSet(loads[c]) :
       /\ L.pc = "claimsAnswer"
       /\ claims' = [claims EXCEPT ![c] = L.data]
       /\ loading' = [loading EXCEPT ![c] = IF L.spin THEN FALSE ELSE @]
       /\ loads' = [loads EXCEPT ![c] = @ (-) One(L)]
  /\ UNCHANGED <<supabase, slug, userKey, mounted, requestPage, plan, responses, err, name,
                 writes>>

\* The writes of the other participant (Bob, in his own browser) as the store
\* applies them: the upsert of his setRSVP, and the update of his claimItem or
\* unclaimItem on a stored row of plan planId.
OthersWrites(planId) ==
  {[fn |-> "setRSVP",
    arg |-> [plan_id |-> planId, user_key |-> "k2", user_name |-> "Bob", status |-> st,
             arrival |-> NULL]] : st \in StatusInputs}
    \cup {[fn |-> "claimItem", arg |-> [id |-> r.id, claimed_by |-> "Bob"]] :
            r \in {x \in supabase.claims : x.plan_id = planId /\ x.item \in ClickedItems}}
    \cup {[fn |-> "unclaimItem", arg |-> [id |-> r.id, claimed_by |-> NULL]] :
            r \in {x \in supabase.claims : x.plan_id = planId /\ x.item \in ClickedItems}}

OtherWrites ==
  /\ \E p \in supabase.plans : \E w \in OthersWrites(p.id) : supabase' = Applied(supabase, w)
  /\ supabase' # supabase
  /\ UNCHANGED <<slug, userKey, mounted, requestPage, plan, responses, claims, loading, err,
                 name, loads, writes>>

\* A viewer who stays on the page of a potluck and only watches, while the
\* other participant writes; the store answers every call.
InitSync ==
  /\ InitSolo
  /\ \A p \in supabase.plans : isPotluck(p.type)
  /\ \A c \in Solo : name[c] = "Ann"

NextSync ==
  \/ \E c \in Solo :
       \/ Tick(c)
       \/ LoadPlan(c)
       \/ ReadResponses(c)
       \/ DeliverResponses(c)
       \/ ReadClaims(c)
       \/ DeliverClaims(c)
       \/ WriteReply(c)
  \/ OtherWrites

\* The interval keeps firing while the page is mounted, and every call of the
\* store is answered in the end.
FairSync ==
  \A c \in Solo :
    /\ WF_vars(Tick(c))
    /\ WF_vars(LoadPlan(c))
    /\ WF_vars(ReadResponses(c))
    /\ WF_vars(DeliverResponses(c))
    /\ WF_vars(ReadClaims(c))
    /\ WF_vars(DeliverClaims(c))
    /\ WF_vars(WriteReply(c))

SpecSync == InitSync /\ [][NextSync]_vars /\ FairSync

\* ------------------------------------------------------------ properties

\* The row of table rows with the given id, as the set of at most one row.
RowOf(rows, id) == {r \in rows : r.id = id}

\* The responses rows of payload's (plan_id, user_key).
RowsOfKey(rows, payload) ==
  {r \in rows : r.plan_id = payload.plan_id /\ r.user_key = payload.user_key}

IsUpsert(w) == w.fn \in {"setRSVP", "setArrival"}

\* C1: the store holds at most one response row per (plan_id, user_key) after
\* every step, no step removes a row or changes a row's key, and when the store
\* applies the upsert of a setRSVP or setArrival call whose pair already has a
\* row, the number of rows stays the same and that row holds the payload's
\* status, arrival and user_name.
C1_OneResponsePerKey ==
  [][ /\ \A r, q \in supabase'.responses :
           (r.plan_id = q.plan_id /\ r.user_key = q.user_key) => r = q
      /\ \A r \in supabase.responses :
           \E q \in supabase'.responses :
             q.id = r.id /\ q.plan_id = r.plan_id /\ q.user_key = r.user_key
      /\ \A c \in Clients : \A w \in BagToSet(writes[c]) :
           (IsUpsert(w) /\ WriteAnswer(c, w, NULL) /\ RowsOfKey(supabase.responses, w.arg) # {})
             => /\ Cardinality(supabase'.responses) = Cardinality(supabase.responses)
                /\ \A q \in RowsOfKey(supabase'.responses, w.arg) :
                     /\ q.status = w.arg.status
                     /\ q.arrival = w.arg.arrival
                     /\ q.user_name = w.arg.user_name
    ]_vars

\* Two tabs of one browser: the shared key has its row, written by setRSVP and
\* by setArrival, and the other tab's upsert of the same key is on its way.
C1_Witness ==
  /\ userKey[1] = userKey[2]
  /\ \E r \in supabase.responses :
       /\ r.status = "in"
       /\ r.arrival # NULL
       /\ \E c \in Clients : \E w \in BagToSet(writes[c]) :
            IsUpsert(w) /\ w.arg.user_key = r.user_key /\ w.arg.plan_id = r.plan_id

\* C2: an unclaimItem call made while the store holds the item as claimed by a
\* name other than the requester's ends with the authorization error and sends
\* no update of the row (so the store's claimed_by is never changed by it).
C2_UnclaimOnlyByClaimant ==
  [][ \A c \in Clients :
        unclaimItem(c)
          => \/ err'[c] = UnclaimError /\ writes'[c] = writes[c]
             \/ \A w \in BagToSet(writes'[c]) :
                  (w.fn = "unclaimItem" /\ CopiesIn(w, writes'[c]) > CopiesIn(w, writes[c]))
                    => \A r \in RowOf(supabase.claims, w.arg.id) :
                         r.claimed_by \in {NULL, "", trim(name[c])}
    ]_vars

\* C3: when the store applies the upsert of a setArrival call of a participant
\* who has a stored response, the stored status stays as it was; when it applies
\* that of a setRSVP call, the stored arrival stays as it was.
C3_PartialUpdateKeepsOtherField ==
  [][ \A c \in Clients : \A w \in BagToSet(writes[c]) :
        (IsUpsert(w) /\ WriteAnswer(c, w, NULL))
          => \A r \in RowsOfKey(supabase.responses, w.arg) :
               \A q \in RowOf(supabase'.responses, r.id) :
                 /\ w.fn = "setArrival" => q.status = r.status
                 /\ w.fn = "setRSVP" => q.arrival = r.arrival
    ]_vars

\* C4: a tab has at most one load in flight at any time.
C4_SingleFlight == \A c \in Clients : BagCardinality(loads[c]) <= 1

\* A select of a load(false) of tab c fails.
TickReadFails(c) ==
  \E L \in BagToSet(loads[c]) :
    /\ ~L.spin
    /\ \/ PlanAnswer(c, L, FailedSelect)
       \/ ResponsesAnswer(c, L, FailedSelect)
       \/ ClaimsAnswer(c, L, FailedSelect)

\* C5: a failed select of a load(false) leaves the displayed plan, responses and
\* claims as they were.
C5_FailedTickKeepsSnapshot ==
  [][ \A c \in Clients :
        TickReadFails(c)
          => plan'[c] = plan[c] /\ responses'[c] = responses[c] /\ claims'[c] = claims[c]
    ]_vars

DefaultItems == Range(DEFAULT_POTLUCK_ITEMS)

\* The store holds every default item for the plan of seeding call w.
AllDefaultsStored(w) ==
  \A i \in DefaultItems : \E r \in supabase.claims : r.plan_id = w.arg.plan_id /\ r.item = i

\* C6: when the store answers the insert of an ensurePotluckDefaults call for a
\* plan whose default items are all stored, the claims table is unchanged.
C6_SeedingIdempotent ==
  [][ \A c \in Clients : \A w \in BagToSet(writes[c]) :
        (w.fn = "ensurePotluckDefaults" /\ AllDefaultsStored(w)
           /\ (WriteAnswer(c, w, Refusal(supabase, w)) \/ WriteAnswer(c, w, WriteError)))
          => supabase'.claims = supabase.claims
    ]_vars

\* A later view: the defaults are stored, one of them claimed, and the insert
\* of a tab that has just opened the page has been answered (its load follows).
C6_Witness ==
  /\ \E r \in supabase.claims : r.claimed_by \notin {NULL, ""}
  /\ Cardinality(supabase.claims) = Cardinality(DefaultItems)
  /\ \E c \in Clients :
       /\ claims[c] = {}
       /\ writes[c] = EmptyBag
       /\ \E L \in BagToSet(loads[c]) : ~L.spin

\* C7: the store holds at most one claim row per (plan_id, item), and each
\* row's claimed_by is null or one non-empty trimmed name.
C7_OneClaimPerItem ==
  /\ \A r, q \in supabase.claims : (r.plan_id = q.plan_id /\ r.item = q.item) => r = q
  /\ \A r \in supabase.claims : r.claimed_by \in {NULL} \cup ({trim(n) : n \in NameInputs \cup SavedNames} \ {""})

\* Two tabs opened the plan at once: both sent the insert of the five items,
\* the store has applied one and the other is still on its way.
C7_Witness ==
  /\ Cardinality(supabase.claims) = Cardinality(DefaultItems)
  /\ \E c \in Clients : \E w \in BagToSet(writes[c]) :
       w.fn = "ensurePotluckDefaults" /\ Len(w.arg.items) = Len(DEFAULT_POTLUCK_ITEMS)

\* C8: a step that gives a plan its first claim rows gives it the five default
\* items, each once and unclaimed, and the plan is a potluck; the store applying
\* the insert of the first view of a potluck with no rows is such a step; a plan
\* that is no potluck never has a claim row.
C8_FirstViewSeedsDefaults ==
  [][ /\ (supabase.claims = {} /\ supabase'.claims # {})
           => /\ {r.item : r \in supabase'.claims} = DefaultItems
              /\ Cardinality(supabase'.claims) = Cardinality(DefaultItems)
              /\ \A r \in supabase'.claims :
                   /\ r.claimed_by = NULL
                   /\ \E p \in supabase.plans : p.id = r.plan_id /\ isPotluck(p.type)
      /\ \A c \in Clients : \A w \in BagToSet(writes[c]) :
           (w.fn = "ensurePotluckDefaults" /\ supabase.claims = {} /\ WriteAnswer(c, w, NULL))
             => supabase'.claims # {}
      /\ (\E p \in supabase.plans : ~isPotluck(p.type)) => supabase'.claims = {}
    ]_vars

\* The first view of a potluck has completed: the page shows the five items,
\* all unclaimed.
C8_Witness ==
  /\ \E p \in supabase.plans : isPotluck(p.type)
  /\ {r.item : r \in claims[1]} = DefaultItems
  /\ \A r \in supabase.claims : r.claimed_by = NULL
  /\ loads[1] = EmptyBag

C10_LastClaimWins ==
  [][ \A c \in Clients : \A w \in BagToSet(writes[c]) :
        (w.fn = "claimItem" /\ WriteAnswer(c, w, NULL))
          => /\ \A q \in RowOf(supabase'.claims, w.arg.id) : q.claimed_by = w.arg.claimed_by
             /\ err'[c] = NULL
             /\ BagCardinality(loads'[c]) = BagCardinality(loads[c]) + 1
    ]_vars

\* Two claimants raced: the store holds the item for one name while the page
\* of the other claimant, whose update was applied first, shows the other name.
C10_Witness ==
  \E r \in supabase.claims : \E c \in Clients : \E v \in claims[c] :
    /\ v.id = r.id
    /\ r.claimed_by \notin {NULL, ""}
    /\ v.claimed_by \notin {NULL, ""}
    /\ v.claimed_by # r.claimed_by
    /\ v.claimed_by = trim(name[c])

\* C18: setRSVP, setArrival and claimItem called while the name field is empty
\* or holds only blanks end with the validation error, send nothing to the
\* store and leave the store as it is.
C18_BlankNameRejected ==
  [][ \A c \in Clients :
        (name[c] \in {"", " "} /\ (setRSVP(c) \/ setArrival(c) \/ claimItem(c)))
          => /\ err'[c] = NameError
             /\ writes'[c] = writes[c]
             /\ supabase' = supabase
    ]_vars

\* A potluck page whose name field holds one blank shows the validation error,
\* and nobody has claimed anything.
C18_Witness ==
  \E c \in Clients :
    /\ name[c] = " "
    /\ err[c] = NameError
    /\ isPotluck(plan[c].type)
    /\ claims[c] # {}
    /\ \A r \in supabase.claims : r.claimed_by = NULL

\* C19: once tab c has navigated away from the plan, no tick fires for it and
\* no load of it takes a step or changes the snapshot.
C19_NoWorkAfterLeaving ==
  [][ \A c \in Clients :
        ~mounted[c]
          => /\ loads'[c] = loads[c]
             /\ plan'[c] = plan[c]
             /\ responses'[c] = responses[c]
             /\ claims'[c] = claims[c]
    ]_vars

\* C20: "Plan not found." is shown only while the slug resolves to no plan, and
\* then stays; a failed select of a load(false) on a page that displays a plan
\* surfaces no error.
C20_NotFoundVersusTransient ==
  [][ \A c \in Clients :
        /\ (~loading'[c] /\ plan'[c] = NoPlan)
             => \A p \in supabase'.plans : p.slug # slug'[c]
        /\ (TickReadFails(c) /\ plan[c] # NoPlan) => err'[c] = err[c]
    ]_vars

\* The start and the end of what the windows of rows i and j have in common.
LaterStart(rows, i, j) ==
  LET a == DateOfISO(rows[i].start_ts)
      b == DateOfISO(rows[j].start_ts)
  IN  IF a < b THEN b ELSE a

EarlierEnd(rows, i, j) ==
  LET a == DateOfISO(rows[i].end_ts)
      b == DateOfISO(rows[j].end_ts)
  IN  IF a < b THEN a ELSE b

CommonMs(rows, i, j) == EarlierEnd(rows, i, j) - LaterStart(rows, i, j)

\* C11: for every two windows displayed, overlapMinutes is positive exactly
\* when the later start is before the earlier end, is then their distance in
\* minutes, and is 0 otherwise; the minutes of every candidate of overlaps are
\* its end minus its start.
C11_OverlapMinutes ==
  LET rows == requestPage.rows
      list == overlaps(rows)
  IN  /\ \A i, j \in DOMAIN rows :
           LET mins == overlapMinutes(DateOfISO(rows[i].start_ts), DateOfISO(rows[i].end_ts),
                                      DateOfISO(rows[j].start_ts), DateOfISO(rows[j].end_ts))
           IN  /\ mins.num > 0 <=> LaterStart(rows, i, j) < EarlierEnd(rows, i, j)
               /\ LaterStart(rows, i, j) < EarlierEnd(rows, i, j)
                    => mins.num = CommonMs(rows, i, j) /\ mins.den = MsPerMinute
               /\ ~(LaterStart(rows, i, j) < EarlierEnd(rows, i, j)) => mins.num = 0
      /\ \A k \in DOMAIN list : list[k].minutes * MsPerMinute = list[k].end - list[k].start

\* The page shows windows of which two overlap, two touch and two are apart.
C11_Witness ==
  LET rows == requestPage.rows
  IN  /\ overlaps(rows) # <<>>
      /\ \E i, j \in DOMAIN rows : CommonMs(rows, i, j) = 0
      /\ \E i, j \in DOMAIN rows : CommonMs(rows, i, j) < 0

\* C12: every candidate of overlaps is what two different windows displayed
\* have in common and lasts at least 30 minutes; what two windows have in
\* common for 30 minutes or more, exactly 30 included, is a candidate unless
\* the list is full.
C12_AtLeastThirtyMinutes ==
  LET rows == requestPage.rows
      list == overlaps(rows)
  IN  /\ \A k \in DOMAIN list :
           /\ list[k].end - list[k].start >= 30 * MsPerMinute
           /\ \E i, j \in DOMAIN rows :
                /\ i # j
                /\ list[k].start = LaterStart(rows, i, j)
                /\ list[k].end = EarlierEnd(rows, i, j)
      /\ \A i, j \in DOMAIN rows :
           (i # j /\ CommonMs(rows, i, j) >= 30 * MsPerMinute)
             => \/ Len(list) = 8
                \/ \E k \in DOMAIN list :
                     list[k].start = LaterStart(rows, i, j) /\ list[k].end = EarlierEnd(rows, i, j)

\* Two windows displayed have exactly 30 minutes in common, which is a
\* candidate, and two have a quarter of an hour in common.
C12_Witness ==
  LET rows == requestPage.rows
      list == overlaps(rows)
  IN  /\ \E k \in DOMAIN list : list[k].end - list[k].start = 30 * MsPerMinute
      /\ \E i, j \in DOMAIN rows : CommonMs(rows, i, j) = 15 * MsPerMinute

\* C13: overlaps has no two entries of the same start and end, has at most 8
\* entries and is in ascending order of start.
C13_DedupedSortedCapped ==
  LET list == overlaps(requestPage.rows)
  IN  /\ \A k, l \in DOMAIN list :
           (list[k].start = list[l].start /\ list[k].end = list[l].end) => k = l
      /\ Len(list) <= 8
      /\ \A k, l \in DOMAIN list : k < l => list[k].start <= list[l].start

\* Five windows displayed have ten different intervals in common two by two,
\* of which the list shows eight.
C13_Witness ==
  LET rows == requestPage.rows
      pairs == {x \in (DOMAIN rows) \X (DOMAIN rows) :
                  x[1] # x[2] /\ CommonMs(rows, x[1], x[2]) >= 30 * MsPerMinute}
  IN  /\ Len(overlaps(rows)) = 8
      /\ Cardinality({<<LaterStart(rows, x[1], x[2]), EarlierEnd(rows, x[1], x[2])>> : x \in pairs}) = 10

\* C14: with fewer than two windows displayed overlaps is empty, and overlaps
\* has a candidate only if windows of two different participants overlap.
C14_TwoContributors ==
  LET rows == requestPage.rows
  IN  /\ Len(rows) < 2 => overlaps(rows) = <<>>
      /\ overlaps(rows) # <<>>
           => \E i, j \in DOMAIN rows :
                rows[i].user_key # rows[j].user_key /\ CommonMs(rows, i, j) > 0

\* The writes that a step has added to those the request page waits for.
SentWrites ==
  {w \in BagToSet(requestPage'.writes) :
     CopiesIn(w, requestPage'.writes) > CopiesIn(w, requestPage.writes)}

\* C15: createPlanFromOverlap sends a plan whose start and end are those of a
\* candidate displayed and whose title, type, note and request are those of the
\* request displayed; when its insert succeeds the store has exactly one more
\* plan, with these columns, the request's title, type and note, and a slug no
\* other plan has, and no other table has changed.
C15_PromotedPlan ==
  [][ /\ createPlanFromOverlap
        => \A w \in SentWrites :
             /\ \E k \in DOMAIN overlaps(requestPage.rows) :
                  /\ DateOfISO(w.arg.start_ts) = overlaps(requestPage.rows)[k].start
                  /\ DateOfISO(w.arg.end_ts) = overlaps(requestPage.rows)[k].end
             /\ w.arg.request_id = requestPage.req.id
             /\ w.arg.title = requestPage.req.title
             /\ w.arg.type = requestPage.req.type
             /\ w.arg.note = requestPage.req.note
      /\ \A w \in BagToSet(requestPage.writes) :
           (\E error \in {NULL, DuplicateError, PlanWriteError} :
              PlanInsertAnswer(w, error) /\ requestPage'.route # requestPage.route)
             => /\ \E p \in supabase'.plans :
                     /\ p \notin supabase.plans
                     /\ supabase'.plans = supabase.plans \cup {p}
                     /\ \A x \in supabase.plans : x.slug # p.slug /\ x.id # p.id
                     /\ p.slug = w.arg.slug
                     /\ p.start_ts = w.arg.start_ts
                     /\ p.end_ts = w.arg.end_ts
                     /\ DateOfISO(p.start_ts) < DateOfISO(p.end_ts)
                     /\ \E q \in supabase.hang_requests :
                          /\ q.id = p.request_id
                          /\ q.title = p.title
                          /\ q.type = p.type
                          /\ q.note = p.note
                     /\ requestPage'.route = [page |-> "p", slug |-> p.slug]
                /\ supabase'.hang_requests = supabase.hang_requests
                /\ supabase'.availability_windows = supabase.availability_windows
                /\ supabase'.responses = supabase.responses
                /\ supabase'.claims = supabase.claims
    ]_vars

\* A window from 10:00 to 11:00 and one from 10:30 to 11:30: the tab is at the
\* page of the plan made of their overlap, from 10:30 to 11:00.
C15_Witness ==
  /\ requestPage.route.page = "p"
  /\ Len(requestPage.rows) = 2
  /\ \E p \in supabase.plans :
       /\ p.slug = requestPage.route.slug
       /\ p.request_id = requestPage.req.id
       /\ p.start_ts = toISOString(DateOfLocal("10:30"))
       /\ p.end_ts = toISOString(DateOfLocal("11:00"))
       /\ \E a, b \in supabase.availability_windows :
            /\ a.user_key # b.user_key
            /\ a.start_ts = toISOString(DateOfLocal("10:00"))
            /\ b.end_ts = toISOString(DateOfLocal("11:30"))

\* C16: when the insert of createPlanFromOverlap fails, the store is as it was,
\* err holds the error and the tab stays on the request page.
C16_FailedPromotion ==
  [][ \A w \in BagToSet(requestPage.writes) : \A error \in {DuplicateError, PlanWriteError} :
        PlanInsertAnswer(w, error)
          => /\ supabase' = supabase
             /\ requestPage'.err = error
             /\ requestPage'.route = requestPage.route
    ]_vars

\* The insert of a plan has failed: the request page shows the error and its
\* overlaps, and the store holds no plan of the request.
C16_Witness ==
  /\ requestPage.err = PlanWriteError
  /\ requestPage.route.page = "r"
  /\ requestPage.writes = EmptyBag
  /\ overlaps(requestPage.rows) # <<>>
  /\ \A p \in supabase.plans : p.request_id # requestPage.req.id

\* C17: every window stored starts before it ends; a window stored stays as it
\* is; addWindow sends an insert only with a name that is not blank and a
\* start before the end, and otherwise sets one of its three errors.
C17_WindowsWellFormed ==
  [][ /\ \A r \in supabase.availability_windows \cup supabase'.availability_windows :
           DateOfISO(r.start_ts) < DateOfISO(r.end_ts)
      /\ \A r \in supabase.availability_windows : r \in supabase'.availability_windows
      /\ addWindow
           => /\ \A w \in SentWrites :
                   /\ w.arg.user_name \notin {"", " "}
                   /\ 0 <= DateOfISO(w.arg.start_ts)
                   /\ DateOfISO(w.arg.start_ts) < DateOfISO(w.arg.end_ts)
                   /\ requestPage'.err = NULL
              /\ SentWrites = {}
                   => /\ requestPage'.err \in {NameError, DateError, OrderError}
                      /\ requestPage'.writes = requestPage.writes
    ]_vars

\* One participant has stored two windows, and an Add window with the end at
\* the start has been refused.
C17_Witness ==
  /\ requestPage.err = OrderError
  /\ \E a, b \in supabase.availability_windows :
       a.id # b.id /\ a.user_key = b.user_key /\ a.user_key = requestPage.userKey

\* The errors a write handler of the plan page sets: the validation error, the
\* authorization error, and the message of a failed or refused store write.
WriteErrors == {NameError, UnclaimError, WriteError, DuplicateError}

\* A step of the reconciliation of tab c that the store answers: the poll
\* effect's interval fires, or a select of a load(false) succeeds.
BackgroundStep(c) ==
  \/ Tick(c)
  \/ \E L \in BagToSet(loads[c]) :
       /\ ~L.spin
       /\ \/ PlanAnswer(c, L, SelectPlan(supabase, slug[c]))
          \/ ResponsesAnswer(c, L, SelectResponses(supabase, L.planId))
          \/ ClaimsAnswer(c, L, SelectClaims(supabase, L.planId))

\* C24: while err holds an error set by a write handler, a tick of the poll
\* and the successful selects of its load leave err as it is.
C24_WriteErrorOutlivesTick ==
  [][ \A c \in Clients :
        (err[c] \in WriteErrors /\ BackgroundStep(c)) => err'[c] = err[c]
    ]_vars

\* The response rows of the participants other than the one of key k.
RowsOfOthers(rows, k) == {r \in rows : r.user_key # k}

\* C21: a setRSVP or setArrival call sends a payload of the caller's own key and
\* changes nothing in the store by itself; when the store answers its upsert,
\* the response rows of every other participant are the same rows as before
\* and the claims table is as it was, whatever the other tabs have in flight.
C21_OthersRowsUntouched ==
  [][ \A c \in Clients :
        /\ (setRSVP(c) \/ setArrival(c))
             => /\ supabase' = supabase
                /\ \A w \in BagToSet(writes'[c]) : IsUpsert(w) => w.arg.user_key = userKey[c]
        /\ \A w \in BagToSet(writes[c]) :
             (IsUpsert(w) /\ WriteAnswer(c, w, Refusal(supabase, w)))
               => /\ RowsOfOthers(supabase'.responses, userKey[c])
                       = RowsOfOthers(supabase.responses, userKey[c])
                  /\ supabase'.claims = supabase.claims
    ]_vars

\* Both participants have a stored response, the first one's written by
\* setRSVP and by setArrival, the claims of the potluck are stored, and upserts
\* of both participants are on their way at once.
C21_Witness ==
  /\ \E r, q \in supabase.responses :
       r.user_key = "k1" /\ q.user_key = "k2" /\ r.status = "in" /\ r.arrival # NULL
  /\ supabase.claims # {}
  /\ \A c \in Clients : \E w \in BagToSet(writes[c]) : IsUpsert(w)

\* Window a of request reqId contains the interval from start to end.
Contains(a, reqId, start, end) ==
  /\ a.request_id = reqId
  /\ DateOfISO(a.start_ts) <= start
  /\ end <= DateOfISO(a.end_ts)

\* C23: every stored plan made of a request starts before it ends, lasts at
\* least 30 minutes, and its interval lies inside two different windows stored
\* for that request.
C23_PlanInsideTwoWindows ==
  \A p \in supabase.plans :
    p.request_id # 0
      => LET start == DateOfISO(p.start_ts)
             end == DateOfISO(p.end_ts)
         IN  /\ start < end
             /\ end - start >= 30 * MsPerMinute
             /\ \E a, b \in supabase.availability_windows :
                  /\ a.id # b.id
                  /\ Contains(a, p.request_id, start, end)
                  /\ Contains(b, p.request_id, start, end)

\* A plan of the request is stored, made of the two windows its page showed,
\* and the other participant has added a third window in the meantime.
C23_Witness ==
  /\ \E p \in supabase.plans : p.request_id = requestPage.req.id /\ p.request_id # 0
  /\ Len(requestPage.rows) = 2
  /\ Cardinality(supabase.availability_windows) = 3
  /\ \E a \in supabase.availability_windows :
       a.user_key = "k2" /\ \A i \in DOMAIN requestPage.rows : requestPage.rows[i].id # a.id

\* Tab c displays a plan, and the responses and claims it displays are the
\* store's rows of that plan.
InSync(c) ==
  /\ plan[c] # NoPlan
  /\ responses[c] = {r \in supabase.responses : r.plan_id = plan[c].id}
  /\ claims[c] = {r \in supabase.claims : r.plan_id = plan[c].id}

\* C22: if from some point on the store is no longer written, then from some
\* point on the viewer displays the store's responses and claims of the plan.
C22_EventuallyInSync ==
  <>[][supabase' = supabase]_vars => <>[](\A c \in Solo : InSync(c))

\* The viewer displays the response and the claim of the other participant as
\* the store holds them, no load being in flight.
C22_Witness ==
  \E c \in Solo :
    /\ InSync(c)
    /\ loads[c] = EmptyBag
    /\ \E r \in responses[c] : r.user_key = "k2"
    /\ \E r \in claims[c] : r.claimed_by = "Bob"

====
